---------------------------- MODULE Spec2Model ----------------------------
(***************************************************************************)
(* x402 developer CLI: the payment flow of src/x402/test.rs, the simulated *)
(* flow of src/x402/mod.rs and the canned facilitator responses of         *)
(* src/x402/facilitator.rs.                                                *)
(*                                                                         *)
(* Values are modelled structurally.  Option<T> is [some |-> FALSE] or     *)
(* [some |-> TRUE, val |-> x]; Result<T, E> is [ok |-> TRUE, val |-> x] or *)
(* [ok |-> FALSE, err |-> e].  A JSON scalar is [t |-> type, v |-> text];  *)
(* a JSON object is a function from its keys.  A header string is either   *)
(* not base64 at all or the base64 text of some bytes; bytes are either    *)
(* not UTF-8 or the UTF-8 of some text; a text is either not JSON or the   *)
(* JSON text of a document.                                                *)
(***************************************************************************)
EXTENDS Integers, Sequences, FiniteSets, TLC

\* Number of flow invocations running side by side.
NumFlows == 1

Flows == 1..NumFlows

None == [some |-> FALSE]

Some(x) == [some |-> TRUE, val |-> x]

Ok(x) == [ok |-> TRUE, val |-> x]

Err(e) == [ok |-> FALSE, err |-> e]

JStr(s) == [t |-> "str", v |-> s]

JBool(b) == [t |-> "bool", v |-> IF b THEN "true" ELSE "false"]

JNum(n) == [t |-> "num", v |-> ToString(n)]

JNull == [t |-> "null", v |-> "null"]

Last(s) == s[Len(s)]

\* The entries of the call log s whose op is in ops, in order.
RECURSIVE SelectOps(_, _)
SelectOps(s, ops) ==
    IF s = <<>> THEN <<>>
    ELSE IF Head(s).op \in ops THEN <<Head(s)>> \o SelectOps(Tail(s), ops)
    ELSE SelectOps(Tail(s), ops)

(***************************************************************************)
(* test.rs: the serde data types.                                          *)
(***************************************************************************)

\* const FACILITATOR_URL
FACILITATOR_URL == "http://localhost:3001"

\* The five String fields of PaymentRequirements.
RequirementsFields == {"scheme", "network", "amount", "asset", "payTo"}

\* Serialize for Extra: `sponsored` has no skip attribute, so None is null.
SerializeExtra(e) ==
    [sponsored |-> IF e.sponsored.some THEN JBool(e.sponsored.val) ELSE JNull]

\* Serialize for PaymentRequirements: `extra` is #[serde(flatten)]; a None
\* contributes no key, a Some(extra) contributes the keys of Extra.
SerializeRequirements(r) ==
    LET base == [scheme  |-> JStr(r.scheme),
                 network |-> JStr(r.network),
                 amount  |-> JStr(r.amount),
                 asset   |-> JStr(r.asset),
                 payTo   |-> JStr(r.payTo)]
    IN  IF r.extra.some THEN base @@ SerializeExtra(r.extra.val) ELSE base

\* Deserialize for Extra from the flattened map: #[serde(default)] makes an
\* absent `sponsored` None; null is None; a bool is Some; anything else is
\* an error.
DeserializeExtra(d) ==
    IF "sponsored" \notin DOMAIN d THEN Ok([sponsored |-> None])
    ELSE IF d["sponsored"].t = "null" THEN Ok([sponsored |-> None])
    ELSE IF d["sponsored"].t = "bool"
         THEN Ok([sponsored |-> Some(d["sponsored"].v = "true")])
    ELSE Err("invalid type")

\* Deserialize for PaymentRequirements (serde_json::from_str, test.rs:99):
\* the five String fields are required; the flattened Option<Extra> is
\* Some(extra) whenever Extra deserializes from the remaining keys and None
\* when it does not.
DeserializeRequirements(text) ==
    IF ~text.json THEN Err("expected value")
    ELSE LET d == text.doc IN
         IF \A k \in RequirementsFields : k \in DOMAIN d /\ d[k].t = "str"
         THEN LET e == DeserializeExtra(d) IN
              Ok([scheme  |-> d["scheme"].v,
                  network |-> d["network"].v,
                  amount  |-> d["amount"].v,
                  asset   |-> d["asset"].v,
                  payTo   |-> d["payTo"].v,
                  extra   |-> IF e.ok THEN Some(e.val) ELSE None])
         ELSE Err("missing field or invalid type")

\* Serialize for Payload.
SerializePayloadFields(p) ==
    [transaction         |-> JStr(p.transaction),
     senderAuthenticator |-> JStr(p.senderAuthenticator)]

\* Serialize for PaymentPayload.
SerializePaymentPayload(pp) ==
    [x402Version |-> JNum(pp.x402Version),
     accepted    |-> SerializeRequirements(pp.accepted),
     payload     |-> SerializePayloadFields(pp.payload)]

\* Engine.encode (base64 STANDARD) of bytes.
Base64Encode(bytes) == [enc |-> "b64", bytes |-> bytes]

\* Engine.decode: fails on a string that is not base64.
Base64Decode(s) ==
    IF s.enc = "b64" THEN Ok(s.bytes) ELSE Err("Invalid base64")

\* String::from_utf8.
FromUtf8(bytes) ==
    IF bytes.utf8 THEN Ok(bytes.text) ELSE Err("invalid utf-8 sequence")

\* serde_json::to_vec: the UTF-8 bytes of the JSON text of a document.
ToVec(doc) == [utf8 |-> TRUE, text |-> [json |-> TRUE, doc |-> doc]]


(***************************************************************************)
(* The HTTP environment: the responses a resource server and a facilitator *)
(* can give.  A call either fails at transport level or yields a response  *)
(* with a status, the PAYMENT-REQUIRED header and a body text.             *)
(***************************************************************************)

TransportCauses == {"connection refused", "operation timed out"}

TransportError(c) == [kind |-> "error", cause |-> c]

Http(status, header, body) ==
    [kind |-> "http", status |-> status, header |-> header, body |-> body]

\* StatusCode::is_success
is_success(status) == status \in 200..299

NotJson == [json |-> FALSE]

Json(doc) == [json |-> TRUE, doc |-> doc]

\* End-to-end scenario 2 of the specification.
DocScenario2 ==
    [scheme |-> JStr("exact"), network |-> JStr("testnet"),
     amount |-> JStr("1000"), asset |-> JStr("USDC"), payTo |-> JStr("0xabc")]

DocOther ==
    [scheme |-> JStr("exact"), network |-> JStr("testnet"),
     amount |-> JStr("250"), asset |-> JStr("USDC"), payTo |-> JStr("0xdef")]

DocSponsored == DocScenario2 @@ [sponsored |-> JBool(TRUE)]

\* `sponsored` of the wrong type: Extra fails, the flattened Option is None.
DocSponsoredStr == DocScenario2 @@ [sponsored |-> JStr("yes")]

\* Documents that are JSON but not PaymentRequirements.
DocNoPayTo ==
    [scheme |-> JStr("exact"), network |-> JStr("testnet"),
     amount |-> JStr("1000"), asset |-> JStr("USDC")]

DocAmountNum ==
    [scheme |-> JStr("exact"), network |-> JStr("testnet"),
     amount |-> JNum(1000), asset |-> JStr("USDC"), payTo |-> JStr("0xabc")]

RequirementsDocs ==
    {DocScenario2, DocOther, DocSponsored, DocSponsoredStr, DocNoPayTo,
     DocAmountNum}

NoHeader == [kind |-> "absent"]

\* A header value holding bytes outside visible ASCII.
OpaqueHeader == [kind |-> "opaque"]

StrHeader(s) == [kind |-> "str", s |-> s]

HeaderValues ==
    {NoHeader, OpaqueHeader,
     StrHeader([enc |-> "plain"]),
     StrHeader(Base64Encode([utf8 |-> FALSE])),
     StrHeader(Base64Encode([utf8 |-> TRUE, text |-> NotJson]))}
    \cup {StrHeader(Base64Encode(ToVec(d))) : d \in RequirementsDocs}

ProbeStatuses == {200, 402, 500}

ProbeResponses ==
    {TransportError(c) : c \in TransportCauses}
    \cup {Http(st, h, NotJson) : st \in ProbeStatuses, h \in HeaderValues}

\* facilitator.rs: the body of the canned answer to any POST request line.
PostResponseBody(url) ==
    [message |-> JStr("Payment facilitated"), status |-> JStr("success"),
     url |-> JStr(url)]

VerifyDocs ==
    {[isValid |-> JBool(TRUE)],
     [isValid |-> JBool(FALSE), invalidReason |-> JStr("insufficient-funds")],
     [isValid |-> JBool(FALSE)],
     PostResponseBody(FACILITATOR_URL)}

FacilitatorStatuses == {200, 500}

VerifyResponses ==
    {TransportError(c) : c \in TransportCauses}
    \cup {Http(st, NoHeader, b) : st \in FacilitatorStatuses,
                                  b \in {NotJson} \cup {Json(d) : d \in VerifyDocs}}

SettleDoc(success, tx) ==
    [success |-> JBool(success), transaction |-> JStr(tx),
     network |-> JStr("testnet"), payer |-> JStr("0xpayer")]

SettleDocs ==
    {SettleDoc(TRUE, "0xdead"), SettleDoc(TRUE, "0xbeef"),
     SettleDoc(FALSE, ""), [success |-> JBool(FALSE)],
     PostResponseBody(FACILITATOR_URL)}

SettleResponses ==
    {TransportError(c) : c \in TransportCauses}
    \cup {Http(st, NoHeader, b) : st \in FacilitatorStatuses,
                                  b \in {NotJson} \cup {Json(d) : d \in SettleDocs}}

RetryStatuses == {200, 402, 500}

RetryResponses ==
    {TransportError(c) : c \in TransportCauses}
    \cup {Http(st, NoHeader, NotJson) : st \in RetryStatuses}

\* rand::random::<[u8; 32]>(), hex encoded with a 0x prefix.
TransactionHashes == {"0x00..00", "0xff..ff"}


(***************************************************************************)
(* State.  Every variable is indexed by the flow invocation: the locals    *)
(* of one call of test_payment_flow, the HTTP calls it has issued (with    *)
(* the answer each one got), the lines it has printed and its return value.*)
(***************************************************************************)
VARIABLES
    impl,             \* which test_payment_flow runs: "test.rs" or "mod.rs"
    pc,               \* the step the invocation is about to execute
    response,         \* test.rs:70 `response`
    requirements,     \* test.rs:99 `requirements`
    payment_payload,  \* test.rs:120 `payment_payload`
    verify_request,   \* test.rs:130 `verify_request`
    settle_result,    \* test.rs:176 `settle_result`
    calls,            \* the HTTP calls issued so far, in order
    out,              \* the lines printed so far, in order
    ret,              \* the Result<()> returned, once returned
    \* the `facilitator start` process (facilitator.rs)
    port_in_use,      \* another process already listens on the port
    main_pc,          \* where the main thread of the command is
    facilitator,      \* the Facilitator struct, once constructed
    server,           \* where the thread spawned by start_server is
    start_result,     \* what Facilitator::start returned, once returned
    fac_out,          \* the lines the process has printed
    conn_log,         \* the connections accepted so far, with their outcome
    \* the header codec applied to one value
    codec_pc,         \* "encode", "decode" or "done"
    codec_r,          \* the PaymentRequirements put in
    codec_header,     \* its header encoding
    codec_decoded     \* what decoding that header gave

flowVars ==
    <<impl, pc, response, requirements, payment_payload, verify_request,
      settle_result, calls, out, ret>>

facVars ==
    <<port_in_use, main_pc, facilitator, server, start_result, fac_out,
      conn_log>>

codecVars == <<codec_pc, codec_r, codec_header, codec_decoded>>

vars == <<flowVars, facVars, codecVars>>

Unset == [unset |-> TRUE]

Msg(m, a) == [msg |-> m, arg |-> a]

Running == [tag |-> "Running", msg |-> "", cause |-> ""]

RetOk == [tag |-> "Ok", msg |-> "", cause |-> ""]

\* An anyhow error: the context message and the underlying cause.
RetErr(m, c) == [tag |-> "Err", msg |-> m, cause |-> c]

Step(nextpc, r, lines) == [pc |-> nextpc, ret |-> r, out |-> lines]

\* transport_failure with the cause of the failed request dropped.
transport_failure_NoCause(context, resp) == RetErr(context, "request failed")

\* test.rs:70-74 (and 135-141, 162-168, 194-199): `.send().await
\* .context(..)?`, the reqwest error returned under the context message.
transport_failure(context, resp) == RetErr(context, resp.cause)

(***************************************************************************)
(* test.rs: test_payment_flow, one operator per stretch of code between    *)
(* two network calls.                                                      *)
(***************************************************************************)

\* ProbeStep with every status other than 402 returned as an error.
ProbeStep_Non402IsError(resp) ==
    LET step1 == Msg("Step 1: Sending initial request...", "") IN
    IF resp.kind = "error"
    THEN Step("Returned",
              transport_failure("Failed to send initial request", resp),
              <<step1>>)
    ELSE LET status == Msg("Status", ToString(resp.status)) IN
         IF resp.status # 402
         THEN Step("Returned", RetErr("Expected 402", ToString(resp.status)),
                   <<step1, status>>)
         ELSE Step("AwaitingPaymentTerms", Running,
                   <<step1, status, Msg("Received 402 Payment Required", "")>>)

\* test.rs:67-86: the probe's answer.
ProbeStep(resp) ==
    LET step1 == Msg("Step 1: Sending initial request...", "") IN
    IF resp.kind = "error"
    THEN Step("Returned",
              transport_failure("Failed to send initial request", resp),
              <<step1>>)
    ELSE LET status == Msg("Status", ToString(resp.status)) IN
         IF resp.status # 402
         THEN Step("Returned", RetOk,
                   <<step1, status,
                     Msg("Expected 402, got", ToString(resp.status)),
                     Msg("Note: For real x402 testing, API must return 402 Payment Required", "")>>)
         ELSE Step("AwaitingPaymentTerms", Running,
                   <<step1, status, Msg("Received 402 Payment Required", "")>>)

\* payment_required_header with a missing header read as an empty value.
payment_required_header_OrEmpty(h) ==
    IF h.kind = "absent"
    THEN Ok(StrHeader(Base64Encode([utf8 |-> TRUE, text |-> NotJson])))
    ELSE Ok(h)

\* test.rs:88-91: headers().get("PAYMENT-REQUIRED").context(..)?
payment_required_header(h) ==
    IF h.kind = "absent"
    THEN Err(RetErr("Missing PAYMENT-REQUIRED header", ""))
    ELSE Ok(h)

\* test.rs:93: to_str()? fails on bytes outside visible ASCII.
header_str(h) ==
    IF h.kind # "str"
    THEN Err(RetErr("failed to convert header to a str", ""))
    ELSE Ok(h.s)

\* test.rs:94-95
decoded_bytes(s) ==
    LET r == Base64Decode(s) IN
    IF r.ok THEN r
    ELSE Err(RetErr("Failed to decode PAYMENT-REQUIRED header", r.err))

\* requirements_str converting lossily instead of failing.
requirements_str_Lossy(bytes) ==
    IF bytes.utf8 THEN Ok(bytes.text) ELSE Ok(NotJson)

\* test.rs:97-98
requirements_str(bytes) ==
    LET r == FromUtf8(bytes) IN
    IF r.ok THEN r
    ELSE Err(RetErr("Failed to convert decoded bytes to UTF-8", r.err))

\* test.rs:99-100
ParseRequirements(text) ==
    LET r == DeserializeRequirements(text) IN
    IF r.ok THEN r
    ELSE Err(RetErr("Failed to parse PaymentRequirements", r.err))

\* test.rs:88-100: header lookup, to_str, base64, UTF-8, JSON, in that
\* order, each `?` returning the first error.
DecodeRequirementsHeader(h) ==
    LET hv == payment_required_header(h) IN
    IF ~hv.ok THEN hv ELSE
    LET hs == header_str(hv.val) IN
    IF ~hs.ok THEN hs ELSE
    LET db == decoded_bytes(hs.val) IN
    IF ~db.ok THEN db ELSE
    LET rs == requirements_str(db.val) IN
    IF ~rs.ok THEN rs ELSE
    ParseRequirements(rs.val)

\* test.rs:88-106: the step after a 402.
AwaitStep(resp) ==
    LET dec == DecodeRequirementsHeader(resp.header) IN
    IF ~dec.ok THEN Step("Returned", dec.err, <<>>)
    ELSE Step("BuildingProof", Running,
              <<Msg("Payment Requirements", dec.val.amount)>>)

\* test.rs:112-118: the placeholder evidence, 64 zero bytes each.
BuildPayload ==
    LET zeros == [utf8 |-> TRUE, text |-> NotJson, zeros |-> 64] IN
    [transaction |-> Base64Encode(zeros),
     senderAuthenticator |-> Base64Encode(zeros)]

\* BuildPaymentPayload rebuilding `accepted` from the five named fields only.
BuildPaymentPayload_DropsExtra(reqs) ==
    [x402Version |-> 2, accepted |-> [reqs EXCEPT !.extra = None],
     payload |-> BuildPayload]

\* test.rs:120-124
BuildPaymentPayload(reqs) ==
    [x402Version |-> 2, accepted |-> reqs, payload |-> BuildPayload]

\* test.rs:130-133: json!({...}) serializes both values.
BuildVerifyRequest(pp, reqs) ==
    [paymentPayload      |-> SerializePaymentPayload(pp),
     paymentRequirements |-> SerializeRequirements(reqs)]

\* An Option<String> field of a response document.
OptString(d, k) ==
    IF k \notin DOMAIN d THEN Ok(None)
    ELSE IF d[k].t = "null" THEN Ok(None)
    ELSE IF d[k].t = "str" THEN Ok(Some(d[k].v))
    ELSE Err("invalid type")

\* test.rs:43-48, 149: Deserialize for VerifyResponse.
DeserializeVerifyResponse(text) ==
    IF ~text.json THEN Err("expected value")
    ELSE LET d == text.doc IN
         IF /\ "isValid" \in DOMAIN d
            /\ d["isValid"].t = "bool"
            /\ OptString(d, "invalidReason").ok
            /\ OptString(d, "payer").ok
         THEN Ok([isValid |-> d["isValid"].v = "true",
                  invalidReason |-> OptString(d, "invalidReason").val,
                  payer |-> OptString(d, "payer").val])
         ELSE Err("missing field or invalid type")

\* test.rs:50-56, 176: Deserialize for SettleResponse, all four fields required.
DeserializeSettleResponse(text) ==
    IF ~text.json THEN Err("expected value")
    ELSE LET d == text.doc IN
         IF /\ "success" \in DOMAIN d
            /\ d["success"].t = "bool"
            /\ \A k \in {"transaction", "network", "payer"} :
                   k \in DOMAIN d /\ d[k].t = "str"
         THEN Ok([success |-> d["success"].v = "true",
                  transaction |-> d["transaction"].v,
                  network |-> d["network"].v,
                  payer |-> d["payer"].v])
         ELSE Err("missing field or invalid type")

\* verify_status_ok never looking at the status.
verify_status_ok_Always(resp) == TRUE

\* test.rs:143: verify_response.status().is_success()
verify_status_ok(resp) == is_success(resp.status)

\* payment_is_valid never looking at isValid.
payment_is_valid_Always(verify_result) == TRUE

\* test.rs:152: verify_result.isValid
payment_is_valid(verify_result) == verify_result.isValid

\* invalid_reason always falling back to the default text.
invalid_reason_Default(verify_result) == "Unknown"

\* test.rs:153: invalidReason.unwrap_or_else(|| "Unknown")
invalid_reason(verify_result) ==
    IF verify_result.invalidReason.some
    THEN verify_result.invalidReason.val
    ELSE "Unknown"

\* test.rs:135-160: the answer to POST /verify.
VerifyStep(resp) ==
    IF resp.kind = "error"
    THEN Step("Returned", transport_failure("Failed to verify payment", resp), <<>>)
    ELSE IF ~verify_status_ok(resp)
    THEN Step("Returned", RetOk, <<Msg("Verification failed", resp.body)>>)
    ELSE LET verify_result == DeserializeVerifyResponse(resp.body) IN
         IF ~verify_result.ok
         THEN Step("Returned",
                   RetErr("Failed to parse verify response", verify_result.err),
                   <<>>)
         ELSE IF ~payment_is_valid(verify_result.val)
         THEN Step("Returned", RetOk,
                   <<Msg("Payment invalid", invalid_reason(verify_result.val))>>)
         ELSE Step("Settling", Running,
                   <<Msg("Payment verified", ""),
                     Msg("Step 4: Settling payment with facilitator...", "")>>)

\* settle_succeeded never looking at success.
settle_succeeded_Always(settled) == TRUE

\* test.rs:179: settle_result.success
settle_succeeded(settled) == settled.success

\* SettleStep sending the settle request again after a non-2xx answer.
SettleStep_ResendsOnFailure(resp) ==
    IF resp.kind = "error"
    THEN Step("Returned", transport_failure("Failed to settle payment", resp), <<>>)
    ELSE IF ~is_success(resp.status)
    THEN Step("Settling", Running, <<Msg("Settlement failed:", resp.body)>>)
    ELSE LET parsed == DeserializeSettleResponse(resp.body) IN
         IF ~parsed.ok
         THEN Step("Returned",
                   RetErr("Failed to parse settle response", parsed.err), <<>>)
         ELSE IF ~settle_succeeded(parsed.val)
         THEN Step("Returned", RetOk, <<Msg("Settlement failed", "")>>)
         ELSE Step("Retrying", Running,
                   <<Msg("Payment settled", ""),
                     Msg("Transaction", parsed.val.transaction),
                     Msg("Payer", parsed.val.payer),
                     Msg("Step 5: Retrying original request with payment proof...", "")>>)

\* test.rs:162-188: the answer to POST /settle.
SettleStep(resp) ==
    IF resp.kind = "error"
    THEN Step("Returned", transport_failure("Failed to settle payment", resp), <<>>)
    ELSE IF ~is_success(resp.status)
    THEN Step("Returned", RetOk, <<Msg("Settlement failed:", resp.body)>>)
    ELSE LET parsed == DeserializeSettleResponse(resp.body) IN
         IF ~parsed.ok
         THEN Step("Returned",
                   RetErr("Failed to parse settle response", parsed.err), <<>>)
         ELSE IF ~settle_succeeded(parsed.val)
         THEN Step("Returned", RetOk, <<Msg("Settlement failed", "")>>)
         ELSE Step("Retrying", Running,
                   <<Msg("Payment settled", ""),
                     Msg("Transaction", parsed.val.transaction),
                     Msg("Payer", parsed.val.payer),
                     Msg("Step 5: Retrying original request with payment proof...", "")>>)

\* EncodePayloadHeader encoding a payload rebuilt without the accepted
\* extra fields.
EncodePayloadHeader_RebuildsPayload(pp) ==
    Base64Encode(ToVec(SerializePaymentPayload(
        [pp EXCEPT !.accepted.extra = None])))

\* test.rs:190-192: the PAYMENT-SIGNATURE header value.
EncodePayloadHeader(pp) == Base64Encode(ToVec(SerializePaymentPayload(pp)))

\* RetryStep with the summary printing the locally generated hash.
RetryStep_PrintsLocalHash(resp, settled) ==
    IF resp.kind = "error"
    THEN Step("Returned", transport_failure("Failed to send final request", resp), <<>>)
    ELSE Step("Returned", RetOk,
              <<IF is_success(resp.status)
                THEN Msg("Received response from API", "")
                ELSE Msg("API returned", ToString(resp.status)),
                Msg("Payment Flow Complete", ""),
                Msg("Transaction", "0x00..00"),
                Msg("Payer", settled.payer),
                Msg("Time", "elapsed ms")>>)

\* RetryStep sending the request again when the answer is not a 2xx.
RetryStep_RetriesOnFailure(resp, settled) ==
    IF resp.kind = "error"
    THEN Step("Returned", transport_failure("Failed to send final request", resp), <<>>)
    ELSE IF ~is_success(resp.status)
    THEN Step("Retrying", Running, <<Msg("API returned", ToString(resp.status))>>)
    ELSE Step("Returned", RetOk,
              <<Msg("Received response from API", ""),
                Msg("Payment Flow Complete", ""),
                Msg("Transaction", settled.transaction),
                Msg("Payer", settled.payer),
                Msg("Time", "elapsed ms")>>)

\* test.rs:194-215: the answer to the retried request, and the summary.
RetryStep(resp, settled) ==
    IF resp.kind = "error"
    THEN Step("Returned", transport_failure("Failed to send final request", resp), <<>>)
    ELSE Step("Returned", RetOk,
              <<IF is_success(resp.status)
                THEN Msg("Received response from API", "")
                ELSE Msg("API returned", ToString(resp.status)),
                Msg("Payment Flow Complete", ""),
                Msg("Transaction", settled.transaction),
                Msg("Payer", settled.payer),
                Msg("Time", "elapsed ms")>>)


(***************************************************************************)
(* mod.rs: the test_payment_flow that `x402-cli test payment` calls.  It   *)
(* probes, and on 402 only prints the payment steps before it retries.     *)
(***************************************************************************)

\* mod.rs:355-388, 417-427: the probe's answer.
ModProbeStep(resp) ==
    LET sending == Msg("Sending initial request...", "") IN
    IF resp.kind = "error"
    THEN Step("Returned",
              transport_failure("Failed to send initial request", resp),
              <<sending>>)
    ELSE LET status == Msg("Initial response status", ToString(resp.status)) IN
         IF is_success(resp.status)
         THEN Step("Returned", RetOk,
                   <<sending, status,
                     Msg("Payment flow completed (no payment required)", "")>>)
         ELSE IF resp.status = 402
         THEN Step("ModRetrying", Running,
                   <<sending, status,
                     Msg("Got 402 Payment Required - creating payment transaction...", ""),
                     Msg("Payment transaction created", ""),
                     Msg("Payment transaction signed", ""),
                     Msg("Payment sent with retry", ""),
                     Msg("Verifying payment and settlement...", ""),
                     Msg("Payment verified and settled", ""),
                     Msg("Receiving response...", "")>>)
         ELSE Step("Returned", RetOk,
                   <<sending, status,
                     Msg("Unexpected status code", ToString(resp.status))>>)

\* mod.rs:389-416, 429: the answer to the request carrying X-Payment-Token.
ModRetryStep(resp, readable) ==
    IF resp.kind = "error"
    THEN Step("Returned",
              transport_failure("Failed to send payment verification request", resp),
              <<>>)
    ELSE IF is_success(resp.status)
    THEN IF ~readable
         THEN Step("Returned",
                   RetErr("Failed to read payment response", "body"), <<>>)
         ELSE Step("Returned", RetOk,
                   <<Msg("Payment flow completed", ""),
                     Msg("Received response", ""),
                     Msg("Response", resp.body)>>)
    ELSE Step("Returned", RetOk,
              <<Msg("Unexpected status code", ToString(resp.status))>>)

(***************************************************************************)
(* Actions.                                                                *)
(***************************************************************************)

\* Advance with the return value kept in one place for all invocations.
Advance_SharedReturn(f, st) ==
    /\ pc' = [pc EXCEPT ![f] = st.pc]
    /\ ret' = [g \in DOMAIN ret |-> st.ret]
    /\ out' = [out EXCEPT ![f] = @ \o st.out]

\* The control part of a step: position, return value, printed lines.
Advance(f, st) ==
    /\ pc' = [pc EXCEPT ![f] = st.pc]
    /\ ret' = [ret EXCEPT ![f] = st.ret]
    /\ out' = [out EXCEPT ![f] = @ \o st.out]

Issue(f, call) == calls' = [calls EXCEPT ![f] = Append(@, call)]

\* test.rs:64-86
Probing(f) ==
    /\ impl[f] = "test.rs"
    /\ pc[f] = "Probing"
    /\ \E resp \in ProbeResponses :
          /\ Issue(f, [op |-> "probe", method |-> "GET", url |-> <<"api_url">>,
                       resp |-> resp])
          /\ response' = [response EXCEPT ![f] = resp]
          /\ Advance(f, ProbeStep(resp))
    /\ UNCHANGED <<facVars, codecVars>>
    /\ UNCHANGED <<impl, requirements, payment_payload, verify_request,
                   settle_result>>

\* test.rs:88-106
AwaitingPaymentTerms(f) ==
    /\ pc[f] = "AwaitingPaymentTerms"
    /\ LET dec == DecodeRequirementsHeader(response[f].header) IN
          requirements' = [requirements EXCEPT
                              ![f] = IF dec.ok THEN dec.val ELSE @]
    /\ Advance(f, AwaitStep(response[f]))
    /\ UNCHANGED <<facVars, codecVars>>
    /\ UNCHANGED <<impl, response, payment_payload, verify_request,
                   settle_result, calls>>

\* test.rs:108-133
BuildingProof(f) ==
    /\ pc[f] = "BuildingProof"
    /\ \E transaction_hash \in TransactionHashes :
          Advance(f, Step("Verifying", Running,
                          <<Msg("Step 2: Building payment payload...", ""),
                            Msg("Transaction Hash", transaction_hash),
                            Msg("Step 3: Verifying payment with facilitator...", "")>>))
    /\ payment_payload' =
          [payment_payload EXCEPT ![f] = BuildPaymentPayload(requirements[f])]
    /\ verify_request' =
          [verify_request EXCEPT
              ![f] = BuildVerifyRequest(BuildPaymentPayload(requirements[f]),
                                        requirements[f])]
    /\ UNCHANGED <<facVars, codecVars>>
    /\ UNCHANGED <<impl, response, requirements, settle_result, calls>>

\* test.rs:135-160
Verifying(f) ==
    /\ pc[f] = "Verifying"
    /\ \E resp \in VerifyResponses :
          /\ Issue(f, [op |-> "verify", method |-> "POST",
                       url |-> <<FACILITATOR_URL, "/verify">>,
                       body |-> verify_request[f], resp |-> resp])
          /\ Advance(f, VerifyStep(resp))
    /\ UNCHANGED <<facVars, codecVars>>
    /\ UNCHANGED <<impl, response, requirements, payment_payload,
                   verify_request, settle_result>>

\* test.rs:162-188
Settling(f) ==
    /\ pc[f] = "Settling"
    /\ \E resp \in SettleResponses :
          /\ Issue(f, [op |-> "settle", method |-> "POST",
                       url |-> <<FACILITATOR_URL, "/settle">>,
                       body |-> verify_request[f], resp |-> resp])
          /\ Advance(f, SettleStep(resp))
          /\ settle_result' =
                [settle_result EXCEPT
                    ![f] = IF SettleStep(resp).pc = "Retrying"
                           THEN DeserializeSettleResponse(resp.body).val
                           ELSE @]
    /\ UNCHANGED <<facVars, codecVars>>
    /\ UNCHANGED <<impl, response, requirements, payment_payload,
                   verify_request>>

\* test.rs:190-215
Retrying(f) ==
    /\ pc[f] = "Retrying"
    /\ \E resp \in RetryResponses :
          /\ Issue(f, [op |-> "retry", method |-> "GET", url |-> <<"api_url">>,
                       signature |-> EncodePayloadHeader(payment_payload[f]),
                       resp |-> resp])
          /\ Advance(f, RetryStep(resp, settle_result[f]))
    /\ UNCHANGED <<facVars, codecVars>>
    /\ UNCHANGED <<impl, response, requirements, payment_payload,
                   verify_request, settle_result>>

\* mod.rs:353-388, 417-429
ModProbing(f) ==
    /\ impl[f] = "mod.rs"
    /\ pc[f] = "Probing"
    /\ \E resp \in ProbeResponses :
          /\ Issue(f, [op |-> "probe", method |-> "GET", url |-> <<"api_url">>,
                       resp |-> resp])
          /\ Advance(f, ModProbeStep(resp))
    /\ UNCHANGED <<facVars, codecVars>>
    /\ UNCHANGED <<impl, response, requirements, payment_payload,
                   verify_request, settle_result>>

\* mod.rs:389-416, 429
ModRetrying(f) ==
    /\ pc[f] = "ModRetrying"
    /\ \E resp \in RetryResponses, readable \in BOOLEAN :
          /\ Issue(f, [op |-> "retry", method |-> "GET", url |-> <<"api_url">>,
                       token |-> "test-token-123", resp |-> resp])
          /\ Advance(f, ModRetryStep(resp, readable))
    /\ UNCHANGED <<facVars, codecVars>>
    /\ UNCHANGED <<impl, response, requirements, payment_payload,
                   verify_request, settle_result>>

FlowInit ==
    /\ impl \in [Flows -> {"test.rs", "mod.rs"}]
    /\ pc = [f \in Flows |-> "Probing"]
    /\ response = [f \in Flows |-> Unset]
    /\ requirements = [f \in Flows |-> Unset]
    /\ payment_payload = [f \in Flows |-> Unset]
    /\ verify_request = [f \in Flows |-> Unset]
    /\ settle_result = [f \in Flows |-> Unset]
    /\ calls = [f \in Flows |-> <<>>]
    /\ out = [f \in Flows |-> <<>>]
    /\ ret = [f \in Flows |-> Running]

\* No `facilitator start` command has been run.
FacIdle ==
    /\ port_in_use = FALSE
    /\ main_pc = "idle"
    /\ facilitator = None
    /\ server = "not_spawned"
    /\ start_result = Unset
    /\ fac_out = <<>>
    /\ conn_log = <<>>

\* The codec is not exercised on its own.
CodecIdle ==
    /\ codec_pc = "done"
    /\ codec_r = Unset
    /\ codec_header = Unset
    /\ codec_decoded = Unset

Init == FlowInit /\ FacIdle /\ CodecIdle

Next ==
    \E f \in Flows :
        \/ Probing(f)
        \/ AwaitingPaymentTerms(f)
        \/ BuildingProof(f)
        \/ Verifying(f)
        \/ Settling(f)
        \/ Retrying(f)
        \/ ModProbing(f)
        \/ ModRetrying(f)

Spec == Init /\ [][Next]_vars


(***************************************************************************)
(* Vocabulary of the properties.  They read the call log, the printed      *)
(* lines and the return value, never the step operators.                   *)
(***************************************************************************)

\* The Resource-Client Flow (probe, verify, settle, retry) is the
\* test_payment_flow of test.rs; the function of the same name in mod.rs
\* contacts no facilitator.
ResourceClientFlow(f) == impl[f] = "test.rs"

Returned(f) == pc[f] = "Returned"

\* The operations of the calls issued so far, in order.
Ops(f) == [i \in 1..Len(calls[f]) |-> calls[f][i].op]

CallsOf(f, ops) == SelectOps(calls[f], ops)

Answered2xx(resp) == resp.kind = "http" /\ resp.status \in 200..299

\* The answer is a 402 whose PAYMENT-REQUIRED header is the base64 of the
\* JSON text of a document with the five string fields.
Decodable402(resp) ==
    /\ resp.kind = "http"
    /\ resp.status = 402
    /\ resp.header.kind = "str"
    /\ resp.header.s.enc = "b64"
    /\ resp.header.s.bytes.utf8
    /\ resp.header.s.bytes.text.json
    /\ \A k \in RequirementsFields :
          /\ k \in DOMAIN resp.header.s.bytes.text.doc
          /\ resp.header.s.bytes.text.doc[k].t = "str"

\* The answer is a 2xx carrying a VerifyResult with the given isValid.
VerifyAnswers(resp, valid) ==
    /\ Answered2xx(resp)
    /\ resp.body.json
    /\ "isValid" \in DOMAIN resp.body.doc
    /\ resp.body.doc["isValid"] = JBool(valid)

\* The answer is a 2xx carrying a SettleResult with the given success.
SettleAnswers(resp, success) ==
    /\ Answered2xx(resp)
    /\ resp.body.json
    /\ DOMAIN resp.body.doc = {"success", "transaction", "network", "payer"}
    /\ resp.body.doc["success"] = JBool(success)

HasCall(f, op) == \E i \in 1..Len(calls[f]) : calls[f][i].op = op

\* The answer the (single) call of that operation got.
AnswerOf(f, op) ==
    LET i == CHOOSE i \in 1..Len(calls[f]) : calls[f][i].op = op
    IN  calls[f][i].resp

Printed(f, m) == \E i \in 1..Len(out[f]) : out[f][i] = m

\* The final summary of test.rs:208-213 names this transaction.
SummaryShows(f, tx) ==
    \E i \in 1..Len(out[f]) - 1 :
        /\ out[f][i] = Msg("Payment Flow Complete", "")
        /\ out[f][i + 1] = Msg("Transaction", tx)

SuccessfulPath(f) ==
    /\ HasCall(f, "probe") /\ Decodable402(AnswerOf(f, "probe"))
    /\ HasCall(f, "verify") /\ VerifyAnswers(AnswerOf(f, "verify"), TRUE)
    /\ HasCall(f, "settle") /\ SettleAnswers(AnswerOf(f, "settle"), TRUE)

(***************************************************************************)
(* C1 - C10: the Resource-Client Flow.                                     *)
(***************************************************************************)

\* C1: on the successful path (402 with a decodable header, /verify 2xx
\* with isValid=true, /settle 2xx with success=true) the flow issues exactly
\* the four calls probe, verify, settle, retry, in that order, and once the
\* retried request is answered the final summary shows the transaction
\* identifier that /settle returned.
C1_SuccessPathFourCalls ==
    \A f \in Flows :
        SuccessfulPath(f) =>
            \/ /\ pc[f] = "Retrying"
               /\ Ops(f) = <<"probe", "verify", "settle">>
            \/ /\ Returned(f)
               /\ Ops(f) = <<"probe", "verify", "settle", "retry">>
               /\ Printed(f, Msg("Transaction",
                                 AnswerOf(f, "settle").body.doc["transaction"].v))
               /\ AnswerOf(f, "retry").kind = "http" =>
                     /\ ret[f] = RetOk
                     /\ SummaryShows(f, AnswerOf(f, "settle").body.doc["transaction"].v)

C1_Witness ==
    \E f \in Flows :
        /\ Returned(f)
        /\ SuccessfulPath(f)
        /\ HasCall(f, "retry")
        /\ Answered2xx(AnswerOf(f, "retry"))
        /\ AnswerOf(f, "settle").body.doc["transaction"] = JStr("0xdead")
        /\ SummaryShows(f, "0xdead")

\* C2: a call to /settle is issued only after a call to /verify with the same
\* payload was answered with isValid=true.
C2_SettleOnlyAfterValidVerify ==
    \A f \in Flows :
        \A i \in 1..Len(calls[f]) :
            calls[f][i].op = "settle" =>
                \E j \in 1..(i - 1) :
                    /\ calls[f][j].op = "verify"
                    /\ calls[f][j].body.paymentPayload
                          = calls[f][i].body.paymentPayload
                    /\ VerifyAnswers(calls[f][j].resp, TRUE)

C2_Witness ==
    \E f \in Flows :
        /\ Ops(f) = <<"probe", "verify", "settle">>
        /\ VerifyAnswers(AnswerOf(f, "verify"), TRUE)
        /\ calls[f][2].body = calls[f][3].body

\* C3: when /verify answers 2xx with isValid=false the flow stops there
\* reporting the payment as invalid together with the invalidReason, and
\* issues neither the /settle call nor the retried resource request.
C3_InvalidPaymentStops ==
    \A f \in Flows :
        (HasCall(f, "verify") /\ VerifyAnswers(AnswerOf(f, "verify"), FALSE)) =>
            LET doc == AnswerOf(f, "verify").body.doc IN
            /\ Returned(f)
            /\ ("invalidReason" \in DOMAIN doc /\ doc["invalidReason"].t = "str") =>
                   Last(out[f]) = Msg("Payment invalid", doc["invalidReason"].v)
            /\ Last(out[f]).msg = "Payment invalid"
            /\ ~Printed(f, Msg("Payment Flow Complete", ""))
            /\ ~HasCall(f, "settle")
            /\ ~HasCall(f, "retry")

C3_Witness ==
    \E f \in Flows :
        /\ HasCall(f, "verify")
        /\ VerifyAnswers(AnswerOf(f, "verify"), FALSE)
        /\ Last(out[f]) = Msg("Payment invalid", "insufficient-funds")


\* C4: when the first probe is answered with a 2xx status the flow returns
\* after exactly one HTTP call, with no call to /verify or /settle and no
\* retry, and its result is Ok, not an error.
C4_ProbeSuccessIsDone ==
    \A f \in Flows :
        (HasCall(f, "probe") /\ Answered2xx(AnswerOf(f, "probe"))) =>
            /\ Returned(f)
            /\ Ops(f) = <<"probe">>
            /\ ret[f] = RetOk

C4_Witness ==
    \E f \in Flows :
        /\ ResourceClientFlow(f)
        /\ HasCall(f, "probe")
        /\ Answered2xx(AnswerOf(f, "probe"))
        /\ ret[f] = RetOk

\* What an observer can tell an outcome by: the kind of result and the
\* lines printed, without the values substituted into them.
OutcomeKind(r, lines) ==
    [tag |-> r.tag, msg |-> r.msg,
     lines |-> [i \in 1..Len(lines) |-> lines[i].msg]]

UnexpectedStatus(resp) ==
    resp.kind = "http" /\ resp.status \notin 200..299 /\ resp.status # 402

\* C5: when the first probe is answered with a status that is neither 2xx
\* nor 402, the flow ends with an unexpected-status failure, an outcome
\* distinct from the one it has for a 2xx probe, and calls no facilitator.
C5_UnexpectedStatusFails ==
    \A f \in Flows :
        (/\ ResourceClientFlow(f)
         /\ HasCall(f, "probe")
         /\ UnexpectedStatus(AnswerOf(f, "probe"))) =>
            /\ Returned(f)
            /\ Ops(f) = <<"probe">>
            /\ OutcomeKind(ret[f], out[f])
                  # OutcomeKind(ProbeStep(Http(200, NoHeader, NotJson)).ret,
                                ProbeStep(Http(200, NoHeader, NotJson)).out)


FailingStage(s) ==
    IF s.enc # "b64" THEN "MalformedHeader"
    ELSE IF ~s.bytes.utf8 THEN "InvalidUtf8"
    ELSE IF ~s.bytes.text.json THEN "SchemaError"
    ELSE IF \E k \in RequirementsFields :
               \/ k \notin DOMAIN s.bytes.text.doc
               \/ s.bytes.text.doc[k].t # "str"
         THEN "SchemaError"
    ELSE "none"

\* The error message test.rs:93-100 has for each kind of decoding failure.
DecodeErrorOf(kind) ==
    CASE kind = "MalformedHeader" -> "Failed to decode PAYMENT-REQUIRED header"
      [] kind = "InvalidUtf8" -> "Failed to convert decoded bytes to UTF-8"
      [] kind = "SchemaError" -> "Failed to parse PaymentRequirements"

\* C7: decoding the PAYMENT-REQUIRED header fails with MalformedHeader when
\* the base64 decoding fails, else with InvalidUtf8 when the bytes are not
\* UTF-8, else with SchemaError when the JSON is not a PaymentRequirements;
\* each of the three ends the flow with that specific error, with no
\* facilitator call and no retry.
C7_DecodeFailuresAreTerminal ==
    \A f \in Flows :
        (/\ ResourceClientFlow(f)
         /\ HasCall(f, "probe")
         /\ AnswerOf(f, "probe").kind = "http"
         /\ AnswerOf(f, "probe").status = 402
         /\ AnswerOf(f, "probe").header.kind = "str"
         /\ FailingStage(AnswerOf(f, "probe").header.s) # "none") =>
            LET kind == FailingStage(AnswerOf(f, "probe").header.s) IN
            /\ pc[f] \in {"AwaitingPaymentTerms", "Returned"}
            /\ Returned(f) =>
                  /\ ret[f].tag = "Err"
                  /\ ret[f].msg = DecodeErrorOf(kind)
            /\ Ops(f) = <<"probe">>

C7_Witness ==
    \E f \in Flows :
        /\ Returned(f)
        /\ HasCall(f, "probe")
        /\ AnswerOf(f, "probe").kind = "http"
        /\ AnswerOf(f, "probe").header.kind = "str"
        /\ FailingStage(AnswerOf(f, "probe").header.s) = "InvalidUtf8"
        /\ ret[f].msg = "Failed to convert decoded bytes to UTF-8"

\* C8: when /verify answers with a non-2xx status the flow stops there
\* reporting that the verification failed, and issues neither /settle nor
\* the retried resource request.
C8_VerifyNon2xxStops ==
    \A f \in Flows :
        (/\ HasCall(f, "verify")
         /\ AnswerOf(f, "verify").kind = "http"
         /\ ~Answered2xx(AnswerOf(f, "verify"))) =>
            /\ Returned(f)
            /\ Last(out[f]) = Msg("Verification failed", AnswerOf(f, "verify").body)
            /\ Ops(f) = <<"probe", "verify">>

C8_Witness ==
    \E f \in Flows :
        /\ HasCall(f, "verify")
        /\ AnswerOf(f, "verify").kind = "http"
        /\ AnswerOf(f, "verify").status = 500
        /\ Last(out[f]).msg = "Verification failed"

\* C9: when /settle answers with a non-2xx status or with success=false the
\* flow stops there reporting that the settlement failed and never issues
\* the resource request carrying PAYMENT-SIGNATURE; only a /settle answered
\* 2xx with success=true leads to the Retrying step.
C9_SettleFailureStops ==
    \A f \in Flows :
        /\ (/\ HasCall(f, "settle")
            /\ AnswerOf(f, "settle").kind = "http"
            /\ \/ ~Answered2xx(AnswerOf(f, "settle"))
               \/ SettleAnswers(AnswerOf(f, "settle"), FALSE)) =>
               /\ Returned(f)
               /\ Last(out[f]).msg \in {"Settlement failed:", "Settlement failed"}
               /\ ~Printed(f, Msg("Payment Flow Complete", ""))
               /\ Ops(f) = <<"probe", "verify", "settle">>
        /\ (pc[f] = "Retrying" \/ \E i \in 1..Len(calls[f]) :
                                     /\ calls[f][i].op = "retry"
                                     /\ "signature" \in DOMAIN calls[f][i]) =>
               /\ HasCall(f, "settle")
               /\ SettleAnswers(AnswerOf(f, "settle"), TRUE)

C9_Witness ==
    \E f \in Flows :
        /\ HasCall(f, "settle")
        /\ SettleAnswers(AnswerOf(f, "settle"), FALSE)
        /\ Last(out[f]) = Msg("Settlement failed", "")

\* C10: in every request body sent to /verify or /settle,
\* paymentPayload.accepted equals paymentRequirements, and both are the
\* requirements decoded from the PAYMENT-REQUIRED header of the 402 answer.
C10_AcceptedIsRequirements ==
    \A f \in Flows :
        \A i \in 1..Len(calls[f]) :
            calls[f][i].op \in {"verify", "settle"} =>
                LET doc == AnswerOf(f, "probe").header.s.bytes.text.doc
                    body == calls[f][i].body
                IN  /\ body.paymentPayload.accepted = body.paymentRequirements
                    /\ requirements[f] = payment_payload[f].accepted
                    /\ body.paymentRequirements
                          = SerializeRequirements(requirements[f])
                    /\ \A k \in RequirementsFields :
                          /\ requirements[f][k] = doc[k].v
                          /\ body.paymentRequirements[k] = doc[k]
                    /\ "sponsored" \in DOMAIN body.paymentRequirements =>
                          \/ /\ "sponsored" \notin DOMAIN doc
                             /\ body.paymentRequirements["sponsored"] = JNull
                          \/ /\ "sponsored" \in DOMAIN doc
                             /\ body.paymentRequirements["sponsored"]
                                   = doc["sponsored"]
                    /\ "sponsored" \notin DOMAIN body.paymentRequirements =>
                          /\ "sponsored" \in DOMAIN doc
                          /\ doc["sponsored"].t \notin {"bool", "null"}

C10_Witness ==
    \E f \in Flows :
        /\ HasCall(f, "settle")
        /\ requirements[f].extra = Some([sponsored |-> Some(TRUE)])
        /\ AnswerOf(f, "settle").kind = "http"


(***************************************************************************)
(* facilitator.rs: the `facilitator start` command.  Facilitator::start    *)
(* builds the struct and calls start_server, which spawns the listener     *)
(* thread, sleeps 100 ms and returns Ok(()); the thread binds the port and *)
(* then accepts and handles connections one at a time.                     *)
(*                                                                         *)
(* A request line is the sequence of its space-separated words; the        *)
(* substring tests of handle_connection are tables over those words.       *)
(***************************************************************************)

\* Connections accepted in one run of the listener.
MaxConns == 2

Ports == {3001, 8080}

\* facilitator.rs:21: format!("http://localhost:{}", port)
UrlOf(port) ==
    CASE port = 3001 -> "http://localhost:3001"
      [] port = 8080 -> "http://localhost:8080"

\* chrono::Utc::now(), formatted.
Timestamps == {"2026-01-01 00:00:00", "2026-01-01 00:00:01"}

RequestLines ==
    {<<"GET", "/health", "HTTP/1.1">>,
     <<"GET", "/healthz", "HTTP/1.1">>,
     <<"GET", "/", "HTTP/1.1">>,
     <<"GET", "/POST", "HTTP/1.1">>,
     <<>>,
     <<"POST", "/verify", "HTTP/1.1">>,
     <<"POST", "/settle", "HTTP/1.1">>,
     <<"PUT", "/verify", "HTTP/1.1">>}

\* The words that end with "GET", start with "/health", contain "POST".
EndsWithGET(w) == w \in {"GET"}

StartsWithHealth(w) == w \in {"/health", "/healthz"}

HasPOST(w) == w \in {"POST", "/POST"}

\* request_line.contains("GET /health")
ContainsGetHealth(line) ==
    \E i \in 1..(Len(line) - 1) :
        EndsWithGET(line[i]) /\ StartsWithHealth(line[i + 1])

\* request_line.contains("POST")
ContainsPost(line) == \E i \in 1..Len(line) : HasPOST(line[i])

\* The requirements a well-formed request body is built from.
ReqExact ==
    [scheme |-> "exact", network |-> "testnet", amount |-> "1000",
     asset |-> "USDC", payTo |-> "0xabc", extra |-> None]

ReqOther ==
    [scheme |-> "exact", network |-> "testnet", amount |-> "250",
     asset |-> "USDC", payTo |-> "0xdef", extra |-> None]

NoBody == [present |-> FALSE]

Body(text) == [present |-> TRUE, text |-> text]

\* What a client can send after the request line: nothing, something that
\* is not JSON, JSON of another shape, a request whose payload accepts the
\* requirements it comes with, and one whose payload accepts others.
RequestBodies ==
    {NoBody,
     Body(NotJson),
     Body(Json([paymentPayload |-> JNull])),
     Body(Json(BuildVerifyRequest(BuildPaymentPayload(ReqExact), ReqExact))),
     Body(Json(BuildVerifyRequest(BuildPaymentPayload(ReqOther), ReqExact)))}

Stream(line, body, read, writable) ==
    [kind |-> "stream", request_line |-> line, body |-> body,
     read |-> read, writable |-> writable]

\* What listener.incoming() can yield: a failure to accept, or a stream
\* whose peer sends a request line (or nothing within the read timeout)
\* and may or may not still be there for the response.
Connections ==
    {[kind |-> "accept_error"]}
    \cup {Stream(l, NoBody, "line", TRUE) : l \in RequestLines}
    \cup {Stream(<<"POST", "/verify", "HTTP/1.1">>, b, "line", TRUE) :
             b \in RequestBodies}
    \cup {Stream(<<"POST", "/settle", "HTTP/1.1">>,
                 Body(Json(BuildVerifyRequest(BuildPaymentPayload(ReqExact),
                                              ReqExact))),
                 "line", TRUE)}
    \cup {Stream(<<>>, NoBody, "timeout", TRUE),
          Stream(<<"POST", "/verify", "HTTP/1.1">>, NoBody, "line", FALSE)}

FacResponse(doc) == [status |-> 200, body |-> Json(doc)]

\* facilitator.rs:111-118: the answer to a health check.
health_response(now) ==
    FacResponse([status |-> JStr("healthy"), timestamp |-> JStr(now)])

\* post_response carrying the time of the request as well.
post_response_Stamped(url, now) ==
    FacResponse(PostResponseBody(url) @@ [timestamp |-> JStr(now)])

\* post_response answering with a VerifyResult.
post_response_Adjudicates(url, now) == FacResponse([isValid |-> JBool(TRUE)])

\* facilitator.rs:119-126: the answer to any request line containing POST.
post_response(url, now) == FacResponse(PostResponseBody(url))

\* facilitator.rs:127-131: the answer to everything else.
default_response(url) ==
    FacResponse([message |-> JStr("Facilitator running"), url |-> JStr(url)])

\* handle_connection with the request-line buffer kept between connections:
\* read_line appends, so the line of an earlier connection is still matched.
handle_connection_SharedBuffer(stream, url, now) ==
    IF stream.read # "line" THEN Err("read timed out")
    ELSE LET earlier == {conn_log[i].stream.request_line :
                            i \in {k \in 1..Len(conn_log) :
                                      /\ conn_log[k].stream.kind = "stream"
                                      /\ conn_log[k].stream.read = "line"}}
             buffer == earlier \cup {stream.request_line}
             resp == IF \E l \in buffer : ContainsGetHealth(l)
                     THEN health_response(now)
                     ELSE IF \E l \in buffer : ContainsPost(l)
                     THEN post_response(url, now)
                     ELSE default_response(url)
         IN  IF stream.writable THEN Ok(resp) ELSE Err("broken pipe")

\* facilitator.rs:99-138: Facilitator::handle_connection.  The body of the
\* request is never read.
handle_connection(stream, url, now) ==
    IF stream.read # "line" THEN Err("read timed out")
    ELSE LET request_line == stream.request_line
             resp == IF ContainsGetHealth(request_line)
                     THEN health_response(now)
                     ELSE IF ContainsPost(request_line)
                     THEN post_response(url, now)
                     ELSE default_response(url)
         IN  IF stream.writable THEN Ok(resp) ELSE Err("broken pipe")

\* facilitator.rs:18-31, 59-64: Facilitator::start up to thread::spawn.
\* new_running with the flag created false.
new_running_False == FALSE

\* facilitator.rs:22: Arc::new(AtomicBool::new(true))
new_running == TRUE

Start ==
    /\ main_pc = "idle"
    /\ \E port \in Ports :
          facilitator' = Some([port |-> port, wallet |-> "default",
                               url |-> UrlOf(port), running |-> new_running])
    /\ server' = "spawned"
    /\ main_pc' = "sleeping"
    /\ fac_out' = Append(fac_out, Msg("Starting facilitator...", ""))
    /\ UNCHANGED <<port_in_use, start_result, conn_log>>
    /\ UNCHANGED <<flowVars, codecVars>>

\* facilitator.rs:65-73: the spawned thread binds the port, or reports the
\* failure on stderr and ends.
ServerBind ==
    /\ server = "spawned"
    /\ IF port_in_use
       THEN /\ server' = "bind_failed"
            /\ fac_out' = Append(fac_out, Msg("Failed to bind to port",
                                              ToString(facilitator.val.port)))
       ELSE /\ server' = "listening"
            /\ fac_out' = Append(fac_out,
                                 Msg("Facilitator ready to receive requests", ""))
    /\ UNCHANGED <<port_in_use, main_pc, facilitator, start_result, conn_log>>
    /\ UNCHANGED <<flowVars, codecVars>>

\* facilitator.rs:94-96, 31-39: the sleep ends, start_server returns Ok(())
\* and Facilitator::start reports the server as started.
StartReturn ==
    /\ main_pc = "sleeping"
    /\ main_pc' = "started"
    /\ start_result' = RetOk
    /\ fac_out' = fac_out \o
          <<Msg("Facilitator server started on", facilitator.val.url),
            Msg("Waiting for wallet connections...", "")>>
    /\ UNCHANGED <<port_in_use, facilitator, server, conn_log>>
    /\ UNCHANGED <<flowVars, codecVars>>

\* after_handling with the error of handle_connection ending the loop.
after_handling_PropagatesError(r) ==
    IF r.ok THEN "listening" ELSE "loop_ended"

\* facilitator.rs:82-84: an error of handle_connection is printed and the
\* loop goes on to the next connection.
after_handling(r) == "listening"

\* facilitator.rs:75-91: one turn of the accept loop.
Accept ==
    /\ server = "listening"
    /\ Len(conn_log) < MaxConns
    /\ \E stream \in Connections, now \in Timestamps :
          IF ~facilitator.val.running
          THEN /\ server' = "loop_ended"
               /\ UNCHANGED <<conn_log, fac_out>>
          ELSE IF stream.kind = "accept_error"
          THEN /\ server' = "loop_ended"
               /\ fac_out' = Append(fac_out,
                                    Msg("Failed to accept connection", ""))
               /\ conn_log' = Append(conn_log, [stream |-> stream])
          ELSE LET r == handle_connection(stream, facilitator.val.url, now) IN
               /\ server' = after_handling(r)
               /\ conn_log' = Append(conn_log, [stream |-> stream, result |-> r])
               /\ fac_out' = fac_out \o
                     (IF stream.read = "line"
                      THEN <<Msg("Request", stream.request_line)>> ELSE <<>>)
                     \o (IF r.ok THEN <<>>
                         ELSE <<Msg("Error handling connection", r.err)>>)
    /\ UNCHANGED <<port_in_use, main_pc, facilitator, start_result>>
    /\ UNCHANGED <<flowVars, codecVars>>

\* mod.rs:167-176, main.rs:63-75: handle_facilitator prints and returns,
\* main returns and the process ends, its listener thread with it.
MainReturns ==
    /\ main_pc = "started"
    /\ main_pc' = "exited"
    /\ server' = "process_exited"
    /\ fac_out' = fac_out \o
          <<Msg("Start facilitator in background...", ""),
            Msg("Run x402 facilitator stop to stop", "")>>
    /\ UNCHANGED <<port_in_use, facilitator, start_result, conn_log>>
    /\ UNCHANGED <<flowVars, codecVars>>

\* The process of facilitator start is running: not yet returned from main
\* and not killed.
ProcessAlive == main_pc \in {"sleeping", "started"}

StopExecuted ==
    \E i \in 1..Len(fac_out) : fac_out[i] = Msg("Stopping facilitator...", "")

\* What the process of facilitator stop prints after pkill has run.  The
\* pattern x402-cli matches the command line of that process too, so it may
\* be gone before it prints; otherwise Facilitator::stop prints by pkill's
\* exit status (facilitator.rs:50-56) and handle_facilitator prints
\* "Facilitator stopped" in both cases (mod.rs:178-179).
StopReports(matched) ==
    {<<>>,
     <<Msg("Facilitator stopped", ""), Msg("Facilitator stopped", "")>>}
    \cup (IF matched THEN {}
          ELSE {<<Msg("No facilitator processes found", ""),
                  Msg("Facilitator stopped", "")>>})

\* facilitator.rs:42-57, mod.rs:177-181: facilitator stop, run in a process
\* of its own at some time after facilitator start was run: pkill -f
\* x402-cli ends the process of facilitator start if it is still there.  It
\* has no access to the Facilitator struct.
Stop ==
    /\ main_pc # "idle"
    /\ ~StopExecuted
    /\ \E report \in StopReports(ProcessAlive) :
          fac_out' = fac_out \o <<Msg("Stopping facilitator...", "")>> \o report
    /\ IF ProcessAlive
       THEN /\ main_pc' = "killed"
            /\ server' = "process_exited"
       ELSE UNCHANGED <<main_pc, server>>
    /\ UNCHANGED <<port_in_use, facilitator, start_result, conn_log>>
    /\ UNCHANGED <<flowVars, codecVars>>

FacInit ==
    /\ port_in_use \in BOOLEAN
    /\ main_pc = "idle"
    /\ facilitator = None
    /\ server = "not_spawned"
    /\ start_result = Unset
    /\ fac_out = <<>>
    /\ conn_log = <<>>

\* The flows are not started.
FlowIdle ==
    /\ impl = [f \in Flows |-> "test.rs"]
    /\ pc = [f \in Flows |-> "Probing"]
    /\ response = [f \in Flows |-> Unset]
    /\ requirements = [f \in Flows |-> Unset]
    /\ payment_payload = [f \in Flows |-> Unset]
    /\ verify_request = [f \in Flows |-> Unset]
    /\ settle_result = [f \in Flows |-> Unset]
    /\ calls = [f \in Flows |-> <<>>]
    /\ out = [f \in Flows |-> <<>>]
    /\ ret = [f \in Flows |-> Running]

InitFacilitator == FacInit /\ FlowIdle /\ CodecIdle

NextFacilitator ==
    \/ Start
    \/ ServerBind
    \/ StartReturn
    \/ Accept
    \/ MainReturns
    \/ Stop

SpecFacilitator == InitFacilitator /\ [][NextFacilitator]_vars


(***************************************************************************)
(* Vocabulary of the facilitator properties, read off the connection log.  *)
(***************************************************************************)

\* The i-th accepted connection sent this request line and got an answer.
AnsweredRequest(i, method, path) ==
    /\ conn_log[i].stream.kind = "stream"
    /\ conn_log[i].stream.read = "line"
    /\ conn_log[i].stream.request_line = <<method, path, "HTTP/1.1">>
    /\ conn_log[i].result.ok

RequestBodyOf(i) == conn_log[i].stream.body

AnswerTo(i) == conn_log[i].result.val

\* The body is JSON of the shape {paymentPayload, paymentRequirements}.
WellFormedRequest(body) ==
    /\ body.present
    /\ body.text.json
    /\ DOMAIN body.text.doc = {"paymentPayload", "paymentRequirements"}
    /\ "accepted" \in DOMAIN body.text.doc["paymentPayload"]

\* The answer is a VerifyResult with this isValid.
IsVerifyResult(resp, valid) ==
    /\ resp.body.json
    /\ "isValid" \in DOMAIN resp.body.doc
    /\ resp.body.doc["isValid"] = JBool(valid)

\* The answer tells the caller that the operation succeeded.
ReportsSuccess(resp) ==
    /\ resp.status \in 200..299
    /\ resp.body.json
    /\ \/ /\ "success" \in DOMAIN resp.body.doc
          /\ resp.body.doc["success"] = JBool(TRUE)
       \/ /\ "status" \in DOMAIN resp.body.doc
          /\ resp.body.doc["status"] = JStr("success")

(***************************************************************************)
(* C11 - C13: the facilitator's verify and settle.                         *)
(***************************************************************************)

\* C11: verify answers isValid=false with invalidReason
\* "requirements-mismatch" for every request whose paymentPayload.accepted
\* differs from its paymentRequirements.
C11_MismatchIsRejected ==
    \A i \in 1..Len(conn_log) :
        (/\ AnsweredRequest(i, "POST", "/verify")
         /\ WellFormedRequest(RequestBodyOf(i))
         /\ RequestBodyOf(i).text.doc["paymentPayload"]["accepted"]
               # RequestBodyOf(i).text.doc["paymentRequirements"]) =>
            /\ IsVerifyResult(AnswerTo(i), FALSE)
            /\ "invalidReason" \in DOMAIN AnswerTo(i).body.doc
            /\ AnswerTo(i).body.doc["invalidReason"] = JStr("requirements-mismatch")

\* C12: a settle request for a payload that no earlier verify answered with
\* isValid=true does not get an answer reporting success.
C12_NoSettleSuccessWithoutVerify ==
    \A i \in 1..Len(conn_log) :
        (/\ AnsweredRequest(i, "POST", "/settle")
         /\ WellFormedRequest(RequestBodyOf(i))
         /\ ~\E j \in 1..(i - 1) :
                /\ AnsweredRequest(j, "POST", "/verify")
                /\ RequestBodyOf(j) = RequestBodyOf(i)
                /\ IsVerifyResult(AnswerTo(j), TRUE)) =>
            ~ReportsSuccess(AnswerTo(i))

\* Two verify requests with the same input got the same answer.
SameVerifySameAnswer ==
    \A i, j \in 1..Len(conn_log) :
        (/\ AnsweredRequest(i, "POST", "/verify")
         /\ AnsweredRequest(j, "POST", "/verify")
         /\ RequestBodyOf(i) = RequestBodyOf(j)) =>
            AnswerTo(i) = AnswerTo(j)

\* This step handled a verify request.
HandlesVerify ==
    /\ Len(conn_log') = Len(conn_log) + 1
    /\ Last(conn_log').stream.kind = "stream"
    /\ Last(conn_log').stream.request_line = <<"POST", "/verify", "HTTP/1.1">>

\* C13: two verify calls with the same input are answered alike, and
\* handling a verify call leaves the Facilitator struct (port, url, running
\* flag) and the listener as they were.
C13_VerifyIsIdempotent ==
    /\ []SameVerifySameAnswer
    /\ [][HandlesVerify => (facilitator' = facilitator /\ server' = server)]_vars

C13_Witness ==
    /\ Len(conn_log) = 2
    /\ AnsweredRequest(1, "POST", "/verify")
    /\ AnsweredRequest(2, "POST", "/verify")
    /\ WellFormedRequest(RequestBodyOf(1))
    /\ RequestBodyOf(1) = RequestBodyOf(2)
    /\ AnswerTo(1) = AnswerTo(2)


(***************************************************************************)
(* The header codec on its own: a PaymentRequirements value is encoded     *)
(* into a PAYMENT-REQUIRED header value and that value is decoded as the   *)
(* flow decodes it (test.rs:88-100).                                       *)
(***************************************************************************)

\* EncodeRequirementsHeader: the JSON of the value, base64 encoded, as
\* test.rs:190-192 encodes the payload.
EncodeRequirementsHeader(r) ==
    StrHeader(Base64Encode(ToVec(SerializeRequirements(r))))

\* test.rs:31-35: the values of Option<Extra>.
ExtraValues ==
    {None, Some([sponsored |-> None]), Some([sponsored |-> Some(TRUE)]),
     Some([sponsored |-> Some(FALSE)])}

\* test.rs:20-29: PaymentRequirements values.
ValidRequirements ==
    [scheme : {"exact"}, network : {"testnet", "mainnet"},
     amount : {"0", "250", "1000"}, asset : {"USDC", "APT"},
     payTo : {"0xabc", "0xdef"}, extra : ExtraValues]

CodecEncode ==
    /\ codec_pc = "encode"
    /\ codec_header' = EncodeRequirementsHeader(codec_r)
    /\ codec_pc' = "decode"
    /\ UNCHANGED <<codec_r, codec_decoded>>
    /\ UNCHANGED <<flowVars, facVars>>

CodecDecode ==
    /\ codec_pc = "decode"
    /\ codec_decoded' = DecodeRequirementsHeader(codec_header)
    /\ codec_pc' = "done"
    /\ UNCHANGED <<codec_r, codec_header>>
    /\ UNCHANGED <<flowVars, facVars>>

CodecInit ==
    /\ codec_pc = "encode"
    /\ codec_r \in ValidRequirements
    /\ codec_header = Unset
    /\ codec_decoded = Unset

InitCodec == CodecInit /\ FlowIdle /\ FacIdle

NextCodec == CodecEncode \/ CodecDecode

SpecCodec == InitCodec /\ [][NextCodec]_vars

\* C14: for every valid PaymentRequirements r, with extra absent or present,
\* decoding the header encoding of r yields r.
C14_RoundTrip ==
    codec_pc = "done" => codec_decoded = Ok(codec_r)


(***************************************************************************)
(* C15 - C18: the Resource-Client Flow, its last call and its outcomes.    *)
(***************************************************************************)

RetryCalls(f) == {i \in 1..Len(calls[f]) : calls[f][i].op = "retry"}

\* C15: the flow issues the retried resource request exactly once; whatever
\* the status of its answer, the flow is finished (with the summary of a
\* completed flow in the Resource-Client Flow) and no call of any kind
\* follows the retry.
C15_RetryOnceThenDone ==
    \A f \in Flows : \A i \in RetryCalls(f) :
        /\ RetryCalls(f) = {i}
        /\ i = Len(calls[f])
        /\ Returned(f)
        /\ (ResourceClientFlow(f) /\ calls[f][i].resp.kind = "http") =>
              /\ ret[f] = RetOk
              /\ Printed(f, Msg("Payment Flow Complete", ""))

\* The retried request was answered with a status that is not a success.
C15_Witness ==
    \E f \in Flows :
        /\ ResourceClientFlow(f)
        /\ Ops(f) = <<"probe", "verify", "settle", "retry">>
        /\ Last(calls[f]).resp.kind = "http"
        /\ ~is_success(Last(calls[f]).resp.status)
        /\ Returned(f)

\* C16: a call (probe, verify, settle or retry) that fails at transport
\* level is the last call of the flow: the flow has returned an error that
\* carries the cause of the failure.
C16_TransportFailureIsTerminal ==
    \A f \in Flows : \A i \in 1..Len(calls[f]) :
        calls[f][i].resp.kind = "error" =>
            /\ i = Len(calls[f])
            /\ Returned(f)
            /\ ret[f].tag = "Err"
            /\ ret[f].cause = calls[f][i].resp.cause

\* The settle call failed at transport level, after a probe and a verify
\* that were answered.
C16_Witness ==
    \E f \in Flows :
        /\ ResourceClientFlow(f)
        /\ Ops(f) = <<"probe", "verify", "settle">>
        /\ Last(calls[f]).resp.kind = "error"
        /\ Last(calls[f]).resp.cause \in TransportCauses
        /\ Returned(f)

\* The facilitator adjudicated and rejected: isValid=false or success=false.
Rejected(f) ==
    \/ HasCall(f, "verify") /\ VerifyAnswers(AnswerOf(f, "verify"), FALSE)
    \/ HasCall(f, "settle") /\ SettleAnswers(AnswerOf(f, "settle"), FALSE)

\* A facilitator call got no answer or an answer that is not a 2xx.
InfrastructureFailure(f) ==
    \E i \in 1..Len(calls[f]) :
        /\ calls[f][i].op \in {"verify", "settle"}
        /\ ~Answered2xx(calls[f][i].resp)

\* C17: the value the flow returns after an adjudication rejection, and the
\* value it returns after an infrastructure failure, are failures: neither
\* is the value Ok that the successful flow returns.
C17_OutcomesAreTagged ==
    \A f \in Flows :
        (ResourceClientFlow(f) /\ Returned(f)) =>
            /\ Rejected(f) => ret[f] # RetOk
            /\ InfrastructureFailure(f) => ret[f] # RetOk

\* C18: whenever the flow has ended, it has printed the summary with the
\* elapsed time, and the summary names the settlement transaction when the
\* settlement was reached.
C18_SummaryOnEveryTerminal ==
    \A f \in Flows :
        (ResourceClientFlow(f) /\ Returned(f)) =>
            /\ Printed(f, Msg("Payment Flow Complete", ""))
            /\ Printed(f, Msg("Time", "elapsed ms"))
            /\ (HasCall(f, "settle") /\ SettleAnswers(AnswerOf(f, "settle"), TRUE)) =>
                  SummaryShows(f, AnswerOf(f, "settle").body.doc["transaction"].v)


(***************************************************************************)
(* C19 - C20: the facilitator's answers to malformed requests, and its     *)
(* start.                                                                  *)
(***************************************************************************)

\* C19: a POST /verify is answered with status 200 only when the request was
\* adjudicated (the answer is a VerifyResult for a well-formed request); a
\* request whose body is absent or not of the shape {paymentPayload,
\* paymentRequirements} is answered with a 4xx or 5xx status.
C19_MalformedVerifyIsRefused ==
    \A i \in 1..Len(conn_log) :
        AnsweredRequest(i, "POST", "/verify") =>
            /\ AnswerTo(i).status = 200 =>
                  /\ WellFormedRequest(RequestBodyOf(i))
                  /\ \E valid \in BOOLEAN : IsVerifyResult(AnswerTo(i), valid)
            /\ ~WellFormedRequest(RequestBodyOf(i)) =>
                  AnswerTo(i).status \in 400..599

\* C20: once Facilitator::start has returned, it has returned an error if
\* the port was in use, and it has reported a started server only if the
\* listener was bound by then.
C20_StartFailsWhenPortInUse ==
    main_pc \in {"started", "exited"} =>
        /\ port_in_use => start_result.tag = "Err"
        /\ start_result = RetOk =>
              \E i \in 1..Len(fac_out) :
                  fac_out[i] = Msg("Facilitator ready to receive requests", "")


(***************************************************************************)
(* C21 - C22: the life of the listener and the independence of its         *)
(* connections.                                                            *)
(***************************************************************************)

\* The listener was bound: it printed that it is ready.
ListenerWasBound ==
    \E i \in 1..Len(fac_out) :
        fac_out[i] = Msg("Facilitator ready to receive requests", "")

\* The accept loop met a failure to accept.
AcceptFailed ==
    \E i \in 1..Len(conn_log) : conn_log[i].stream.kind = "accept_error"

\* C21: once facilitator start has returned successfully with its listener
\* bound, the listener is still accepting connections for as long as
\* facilitator stop has not been executed.
C21_ListenerOutlivesStart ==
    (/\ start_result = RetOk
     /\ ListenerWasBound
     /\ ~AcceptFailed
     /\ ~StopExecuted) => server = "listening"

\* The two results are the same, or they are two answers that differ in
\* their timestamp only.
SameButClock(r1, r2) ==
    \/ r1 = r2
    \/ /\ r1.ok /\ r2.ok
       /\ r1.val.status = r2.val.status
       /\ r1.val.body.json /\ r2.val.body.json
       /\ DOMAIN r1.val.body.doc = DOMAIN r2.val.body.doc
       /\ \A k \in DOMAIN r1.val.body.doc \ {"timestamp"} :
             r1.val.body.doc[k] = r2.val.body.doc[k]

\* The streams handled so far.
Handled == {i \in 1..Len(conn_log) : conn_log[i].stream.kind = "stream"}

\* C22 as stated: under every interleaving, the result of a connection is
\* determined by its own request and the configuration: two connections
\* with the same request are answered alike wherever they come in the
\* order; and the configuration does not change once the server is started.
C22_AnswerFromRequestAndConfigOnly ==
    /\ [](\A i, j \in Handled :
             conn_log[i].stream = conn_log[j].stream =>
                 conn_log[i].result = conn_log[j].result)
    /\ [][facilitator.some => facilitator' = facilitator]_vars

\* The result of the i-th connection is what its own request, the url and a
\* reading of the clock give, whatever was handled before and after it.
OwnRequestDecides(i) ==
    \E now \in Timestamps :
        conn_log[i].result =
            handle_connection(conn_log[i].stream, facilitator.val.url, now)

\* C22, amended: the result of each connection is decided by its own
\* request, the url and the time at which it is handled (the timestamp of
\* the GET /health answer): two connections with the same request are
\* answered alike wherever they come in the order, but for that timestamp;
\* the configuration does not change once the server is started.
C22_ConnectionsAreIndependent ==
    /\ [](\A i \in Handled : OwnRequestDecides(i))
    /\ [](\A i, j \in Handled :
             conn_log[i].stream = conn_log[j].stream =>
                 SameButClock(conn_log[i].result, conn_log[j].result))
    /\ [][facilitator.some => facilitator' = facilitator]_vars

\* The same request came after a connection of another kind, and twice,
\* and its two answers differ.
C22_Witness ==
    /\ Len(conn_log) = 2
    /\ AnsweredRequest(1, "GET", "/health")
    /\ AnsweredRequest(2, "GET", "/health")
    /\ conn_log[1].stream = conn_log[2].stream
    /\ AnswerTo(1) # AnswerTo(2)
    /\ facilitator.some


(***************************************************************************)
(* Invocations of the Resource-Client Flow running in parallel.  Each      *)
(* invocation is a call of test_payment_flow with its own locals           *)
(* (test.rs:63-66); the responses are drawn from a few of those of the     *)
(* environment, enough for every way the flow can end.                     *)
(***************************************************************************)
NumParallel == 2

ParallelFlows == 1..NumParallel

\* For each call, a few of the answers the environment can give: a failing
\* and a succeeding one at least, and two different payment terms.
ParallelResponses(op) ==
    CASE op = "probe" ->
           {TransportError("connection refused"),
            Http(402, StrHeader(Base64Encode(ToVec(DocScenario2))), NotJson),
            Http(402, StrHeader(Base64Encode(ToVec(DocOther))), NotJson)}
      [] op = "verify" ->
           {Http(500, NoHeader, NotJson),
            Http(200, NoHeader, Json([isValid |-> JBool(TRUE)])),
            Http(200, NoHeader,
                 Json([isValid |-> JBool(FALSE),
                       invalidReason |-> JStr("insufficient-funds")]))}
      [] op = "settle" ->
           {TransportError("operation timed out"),
            Http(200, NoHeader, Json(SettleDoc(TRUE, "0xdead")))}
      [] op = "retry" ->
           {Http(200, NoHeader, NotJson), Http(500, NoHeader, NotJson)}

\* The call this step issued, if any, was answered from ParallelResponses.
AnsweredFromParallelResponses(f) ==
    calls'[f] # calls[f] =>
        Last(calls'[f]).resp \in ParallelResponses(Last(calls'[f]).op)

ParProbing(f) == Probing(f) /\ AnsweredFromParallelResponses(f)

ParVerifying(f) == Verifying(f) /\ AnsweredFromParallelResponses(f)

ParSettling(f) == Settling(f) /\ AnsweredFromParallelResponses(f)

ParRetrying(f) == Retrying(f) /\ AnsweredFromParallelResponses(f)

InitParallel ==
    /\ impl = [f \in ParallelFlows |-> "test.rs"]
    /\ pc = [f \in ParallelFlows |-> "Probing"]
    /\ response = [f \in ParallelFlows |-> Unset]
    /\ requirements = [f \in ParallelFlows |-> Unset]
    /\ payment_payload = [f \in ParallelFlows |-> Unset]
    /\ verify_request = [f \in ParallelFlows |-> Unset]
    /\ settle_result = [f \in ParallelFlows |-> Unset]
    /\ calls = [f \in ParallelFlows |-> <<>>]
    /\ out = [f \in ParallelFlows |-> <<>>]
    /\ ret = [f \in ParallelFlows |-> Running]
    /\ FacIdle
    /\ CodecIdle

NextParallel ==
    \E f \in ParallelFlows :
        \/ ParProbing(f)
        \/ AwaitingPaymentTerms(f)
        \/ BuildingProof(f)
        \/ ParVerifying(f)
        \/ ParSettling(f)
        \/ ParRetrying(f)

SpecParallel == InitParallel /\ [][NextParallel]_vars

\* What a call is: its operation, what it sent and what it got.
CallSummary(c) ==
    IF c.op \in {"verify", "settle"}
    THEN [op |-> c.op, body |-> c.body, resp |-> c.resp]
    ELSE IF c.op = "retry"
    THEN [op |-> c.op, signature |-> c.signature, resp |-> c.resp]
    ELSE [op |-> c.op, resp |-> c.resp]

\* test.rs:63-216 run alone to its end: the calls, the printed lines and the
\* return value of one invocation that gets the responses R, in order, and
\* draws the transaction hash h.
SoloRun(R, h) ==
    LET probe == ProbeStep(R[1])
        c1 == <<[op |-> "probe", resp |-> R[1]]>>
    IN
    IF probe.pc = "Returned"
    THEN [calls |-> c1, ret |-> probe.ret, out |-> probe.out]
    ELSE
    LET terms == AwaitStep(R[1])
        o2 == probe.out \o terms.out
    IN
    IF terms.pc = "Returned"
    THEN [calls |-> c1, ret |-> terms.ret, out |-> o2]
    ELSE
    LET reqs == DecodeRequirementsHeader(R[1].header).val
        pp == BuildPaymentPayload(reqs)
        body == BuildVerifyRequest(pp, reqs)
        o3 == o2 \o <<Msg("Step 2: Building payment payload...", ""),
                       Msg("Transaction Hash", h),
                       Msg("Step 3: Verifying payment with facilitator...", "")>>
        verify == VerifyStep(R[2])
        c2 == Append(c1, [op |-> "verify", body |-> body, resp |-> R[2]])
    IN
    IF verify.pc = "Returned"
    THEN [calls |-> c2, ret |-> verify.ret, out |-> o3 \o verify.out]
    ELSE
    LET settle == SettleStep(R[3])
        c3 == Append(c2, [op |-> "settle", body |-> body, resp |-> R[3]])
        o4 == o3 \o verify.out \o settle.out
    IN
    IF settle.pc = "Returned"
    THEN [calls |-> c3, ret |-> settle.ret, out |-> o4]
    ELSE
    LET retry == RetryStep(R[4], DeserializeSettleResponse(R[3].body).val)
        c4 == Append(c3, [op |-> "retry",
                          signature |-> EncodePayloadHeader(pp),
                          resp |-> R[4]])
    IN  [calls |-> c4, ret |-> retry.ret, out |-> o4 \o retry.out]

\* The responses this invocation got, in order.
ResponsesOf(f) == [i \in 1..Len(calls[f]) |-> calls[f][i].resp]

\* The transaction hash this invocation drew (test.rs:108-109), if it did.
HashOf(f) ==
    LET drawn == {out[f][i].arg : i \in {k \in 1..Len(out[f]) :
                                           out[f][k].msg = "Transaction Hash"}}
    IN  IF drawn = {} THEN "" ELSE CHOOSE h \in drawn : TRUE

\* C23: under every interleaving of the steps of the parallel invocations,
\* an invocation that has ended has issued the calls, printed the lines and
\* returned the value that it has when it runs alone and gets the same
\* responses.
C23_ParallelFlowsAreIndependent ==
    \A f \in ParallelFlows :
        Returned(f) =>
            LET solo == SoloRun(ResponsesOf(f), HashOf(f)) IN
            /\ [i \in 1..Len(calls[f]) |-> CallSummary(calls[f][i])] = solo.calls
            /\ ret[f] = solo.ret
            /\ out[f] = solo.out

\* Two invocations have ended, one after the full cycle and one rejected at
\* verify, on different payment terms.
C23_Witness ==
    \E f, g \in ParallelFlows :
        /\ f # g
        /\ Returned(f) /\ Returned(g)
        /\ Ops(f) = <<"probe", "verify", "settle", "retry">>
        /\ Ops(g) = <<"probe", "verify">>
        /\ VerifyAnswers(Last(calls[g]).resp, FALSE)
        /\ out[f] # out[g]
        /\ calls[f][2].body # calls[g][2].body


(***************************************************************************)
(* The flow with a peer that may never answer.  Client::new()              *)
(* (test.rs:64, mod.rs:353) sets no timeout on the client or on a request, *)
(* so send().await completes only when the peer answers or the transport   *)
(* fails.                                                                  *)
(***************************************************************************)

\* The positions at which the flow sends a request.
NetworkPcs == {"Probing", "Verifying", "Settling", "Retrying", "ModRetrying"}

OpAt(p) ==
    CASE p = "Probing" -> "probe"
      [] p = "Verifying" -> "verify"
      [] p = "Settling" -> "settle"
      [] p \in {"Retrying", "ModRetrying"} -> "retry"

\* The request is sent and the peer keeps the connection open without ever
\* answering: the flow stays at the await.
NeverAnswered(f) ==
    /\ pc[f] \in NetworkPcs
    /\ Issue(f, [op |-> OpAt(pc[f]), resp |-> [kind |-> "pending"]])
    /\ pc' = [pc EXCEPT ![f] = "AwaitingResponse"]
    /\ UNCHANGED <<facVars, codecVars>>
    /\ UNCHANGED <<impl, response, requirements, payment_payload,
                   verify_request, settle_result, out, ret>>

NextLive ==
    \/ Next
    \/ \E f \in Flows : NeverAnswered(f)

\* The runtime keeps polling the flow: a step that can be taken is taken.
SpecLive == Init /\ [][NextLive]_vars /\ WF_vars(NextLive)

\* C24: every invocation of the flow eventually ends (Done or Failed), also
\* when the resource server or the facilitator never answers.
C24_EveryFlowTerminates == \A f \in Flows : <>Returned(f)


(***************************************************************************)
(* C25 - C27: the shape of the pipeline, the values it carries, and the    *)
(* flow against the listener of facilitator.rs.                            *)
(***************************************************************************)

Pipeline == <<"probe", "verify", "settle", "retry">>

IsPrefix(s, t) == Len(s) <= Len(t) /\ s = SubSeq(t, 1, Len(s))

\* The order of the positions of test_payment_flow in the code.
Rank(p) ==
    CASE p = "Probing" -> 1
      [] p = "AwaitingPaymentTerms" -> 2
      [] p = "BuildingProof" -> 3
      [] p = "Verifying" -> 4
      [] p = "Settling" -> 5
      [] p = "Retrying" -> 6
      [] p = "Returned" -> 7

\* C25: the calls of a flow are a prefix of probe, verify, settle, retry
\* (each call at most once, none re-sent); every step moves the flow to a
\* later position, never back to one it has left; and a flow that has ended
\* issues no further call.
C25_LinearPipeline ==
    /\ [](\A f \in Flows : ResourceClientFlow(f) => IsPrefix(Ops(f), Pipeline))
    /\ [][\A f \in Flows :
             ResourceClientFlow(f) =>
                 /\ pc'[f] # pc[f] => Rank(pc'[f]) > Rank(pc[f])
                 /\ calls'[f] # calls[f] => pc'[f] # pc[f]
                 /\ Returned(f) => (calls'[f] = calls[f] /\ pc'[f] = pc[f])]_vars

\* The settle call was answered with a server error and the flow has ended
\* with that one settle call.
C25_Witness ==
    \E f \in Flows :
        /\ ResourceClientFlow(f)
        /\ Returned(f)
        /\ Ops(f) = <<"probe", "verify", "settle">>
        /\ Last(calls[f]).resp.kind = "http"
        /\ Last(calls[f]).resp.status = 500

\* C26: the body sent to /settle is the body sent to /verify; both carry
\* the requirements decoded from the 402 answer, as paymentRequirements and
\* as the accepted terms of the payload; the PAYMENT-SIGNATURE header of the
\* retry encodes the payload of that body; and requirements and payload,
\* once built, are never changed.
C26_TermsCarriedUnchanged ==
    /\ [](\A f \in Flows :
             ResourceClientFlow(f) =>
                 /\ HasCall(f, "verify") =>
                       LET sent == calls[f][2].body
                           terms == DecodeRequirementsHeader(
                                        AnswerOf(f, "probe").header).val
                       IN  /\ sent["paymentRequirements"] = SerializeRequirements(terms)
                           /\ sent["paymentPayload"]["accepted"]
                                 = SerializeRequirements(terms)
                 /\ HasCall(f, "settle") => calls[f][3].body = calls[f][2].body
                 /\ HasCall(f, "retry") =>
                       calls[f][4].signature
                          = Base64Encode(ToVec(calls[f][2].body["paymentPayload"])))
    /\ [][\A f \in Flows :
             /\ requirements[f] # Unset => requirements'[f] = requirements[f]
             /\ payment_payload[f] # Unset =>
                   payment_payload'[f] = payment_payload[f]
             /\ verify_request[f] # Unset =>
                   verify_request'[f] = verify_request[f]]_vars

\* The retry was sent for terms that carry the optional sponsored field.
C26_Witness ==
    \E f \in Flows :
        /\ ResourceClientFlow(f)
        /\ Ops(f) = Pipeline
        /\ requirements[f].extra = Some([sponsored |-> Some(TRUE)])
        /\ calls[f][3].body = calls[f][2].body

\* What a client of the listener of facilitator.rs gets for this request
\* line, when the listener serves FACILITATOR_URL.
ListenerAnswers(line) ==
    {LET r == handle_connection(Stream(line, NoBody, "line", TRUE),
                                FACILITATOR_URL, now).val
     IN  Http(r.status, NoHeader, r.body) : now \in Timestamps}

\* C27: when POST /verify is answered as the listener of facilitator.rs
\* answers it, the flow ends at the verify step with a parse error: it has
\* issued probe and verify only, and never settles or retries.
C27_OwnFacilitatorFailsVerify ==
    \A f \in Flows :
        (/\ ResourceClientFlow(f)
         /\ HasCall(f, "verify")
         /\ AnswerOf(f, "verify")
               \in ListenerAnswers(<<"POST", "/verify", "HTTP/1.1">>)) =>
            /\ Returned(f)
            /\ Ops(f) = <<"probe", "verify">>
            /\ ret[f].tag = "Err"
            /\ ret[f].msg = "Failed to parse verify response"

\* The verify call got the listener's answer, a 200 without isValid.
C27_Witness ==
    \E f \in Flows :
        /\ ResourceClientFlow(f)
        /\ Ops(f) = <<"probe", "verify">>
        /\ AnswerOf(f, "verify")
              \in ListenerAnswers(<<"POST", "/verify", "HTTP/1.1">>)
        /\ AnswerOf(f, "verify").status = 200
        /\ "isValid" \notin DOMAIN AnswerOf(f, "verify").body.doc
        /\ Returned(f)


(***************************************************************************)
(* C28 - C29: the accept loop and the running flag.                        *)
(***************************************************************************)

\* This step handled an accepted connection.
HandlesConnection ==
    /\ Len(conn_log') = Len(conn_log) + 1
    /\ Last(conn_log').stream.kind = "stream"

\* This step ended the accept loop, in a process that goes on.
LoopEnds == server = "listening" /\ server' = "loop_ended"

\* C28: handling a connection, with or without an error (a read timeout
\* among them), leaves the listener accepting; the loop ends only on a
\* failure to accept or on the running flag being false; and connections
\* are handled one at a time, each appended after those handled before.
C28_LoopSurvivesConnectionErrors ==
    /\ [][HandlesConnection => server' = "listening"]_vars
    /\ [][LoopEnds =>
            \/ ~facilitator.val.running
            \/ /\ Len(conn_log') = Len(conn_log) + 1
               /\ Last(conn_log').stream.kind = "accept_error"]_vars
    /\ [][/\ Len(conn_log') \in {Len(conn_log), Len(conn_log) + 1}
          /\ SubSeq(conn_log', 1, Len(conn_log)) = conn_log]_vars

\* A connection that sent nothing within the read timeout was followed by
\* one that was answered.
C28_Witness ==
    /\ Len(conn_log) = 2
    /\ conn_log[1].stream.kind = "stream"
    /\ conn_log[1].stream.read = "timeout"
    /\ ~conn_log[1].result.ok
    /\ AnsweredRequest(2, "GET", "/health")

\* C29: the running flag is true whenever the Facilitator exists, facilitator
\* stop included, and the accept loop never ends with the flag false: it
\* ends on a failure to accept only.
C29_RunningIsAlwaysTrue ==
    /\ [](facilitator.some => facilitator.val.running)
    /\ [][LoopEnds =>
            /\ facilitator.val.running
            /\ Len(conn_log') = Len(conn_log) + 1
            /\ Last(conn_log').stream.kind = "accept_error"]_vars

\* facilitator stop has run while the listener had handled a connection,
\* and the flag is still true.
C29_Witness ==
    /\ StopExecuted
    /\ facilitator.some
    /\ facilitator.val.running
    /\ Len(conn_log) >= 1
    /\ server = "process_exited"

=============================================================================
